---- MODULE Spec2Model ----
(***************************************************************************)
(* A model of util.go of containerd-release-tool: the two manifest         *)
(* parsers, the dependency differ, the rename mapper, the changelog        *)
(* parser, the link rewriters and the contributor ranking.                 *)
(*                                                                         *)
(* Go strings are TLA+ strings; a character is a string of length 1.       *)
(* len(s) is Len(s), s[i:j] is SubSeq(s, i+1, j) and a+b is a \o b.        *)
(* A nil error is the value Nil, a nil slice the empty sequence.           *)
(***************************************************************************)
EXTENDS Integers, Sequences, FiniteSets, TLC

VARIABLES
    pc,            \* position of the modelled call: "call", "scan", "return"
    description,   \* githubPRLink: c.Description of the change passed in
    repo,          \* githubPRLink / githubCommitLink: the owner/repo string
    message,       \* githubPRLink: the returned description
    c,             \* linkifyChanges: the change slice, rewritten in place
    revs,          \* the repository: what `git rev-parse <rev>` answers
    linkErr,       \* linkifyChanges: the returned error
    rd,            \* parsers: the manifest text handed to the parser
    pos,           \* parsers: number of lines the scanner has yielded
    foundRequire,  \* parseGoModDependencies: the foundRequire flag
    parsed,        \* parsers, parseDependencies: the dependency slice
    perr,          \* parsers, parseDependencies: the returned error
    tree,          \* the repository: what `git show <rev>:<file>` answers
    gitCalls,      \* the git invocations parseDependencies has made
    previous,      \* updatedDeps: the previous dependency list
    deps,          \* updatedDeps / renameDependencies: the dependency list
    updated,       \* updatedDeps: the returned slice
    renames,       \* renameDependencies: shortname -> projectRename
    changelog,     \* parseChangelog: the raw log bytes
    changes,       \* parseChangelog: the returned slice
    cerr,          \* parseChangelog: returned error, or Panic
    contributors,  \* orderContributors: the tally map
    names          \* orderContributors: the returned names

varsPR == <<description, message>>
varsLink == <<c, revs, linkErr>>
varsParse == <<rd, pos, foundRequire>>
varsDeps == <<tree, gitCalls>>
varsDiff == <<previous, updated>>
varsRename == <<renames>>
varsLog == <<changelog, changes, cerr>>
varsContrib == <<contributors, names>>
vars == <<pc, repo, parsed, perr, deps, varsPR, varsLink, varsParse, varsDeps,
          varsDiff, varsRename, varsLog, varsContrib>>

\* Bounds of the model.
MaxDigits == 2
MaxChanges == 2
MaxLines == 3
MaxPieces == 4
MaxDeps == 3
MaxLog == 3
MaxContrib == 3
MaxCount == 2

Nil == "<nil>"
\* The runtime panic of an out-of-range index (no error value is returned).
Panic == "panic: runtime error: index out of range"
\* The ASCII backquote; a TLA+ string literal cannot hold one, so this
\* character, which occurs in no input of the model, stands for it.
BackQuote == "~"

----------------------------------------------------------------------------
(* package strings *)

Min(S) == CHOOSE x \in S : \A y \in S : x <= y
Max(S) == CHOOSE x \in S : \A y \in S : x >= y

At(s, i) == SubSeq(s, i, i)

SpaceChars == {" ", "\t", "\r", "\n"}
IsSpace(ch) == ch \in SpaceChars
IsDigit(ch) == ch \in {"0", "1", "2", "3", "4", "5", "6", "7", "8", "9"}
IsHex(ch) == IsDigit(ch) \/ ch \in {"a", "b", "c", "d", "e", "f"}
\* The characters getCommitOrVersion splits on
DashChars == {"-"}
IsNewline(ch) == ch = "\n"

\* sub occurs in s at the 1-based position i
OccursAt(s, sub, i) ==
    /\ i >= 1
    /\ i + Len(sub) - 1 <= Len(s)
    /\ SubSeq(s, i, i + Len(sub) - 1) = sub

\* strings.Index: the 0-based index of the first occurrence, or -1
Index(s, sub) ==
    LET occ == {i \in 1..Len(s) : OccursAt(s, sub, i)}
    IN  IF occ = {} THEN -1 ELSE Min(occ) - 1

HasPrefix(s, prefix) == OccursAt(s, prefix, 1)
HasSuffix(s, suffix) == Len(suffix) <= Len(s) /\ OccursAt(s, suffix, Len(s) - Len(suffix) + 1)

\* strings.TrimSpace
TrimSpace(s) ==
    LET keep == {i \in 1..Len(s) : ~IsSpace(At(s, i))}
    IN  IF keep = {} THEN "" ELSE SubSeq(s, Min(keep), Max(keep))

\* strings.FieldsFunc(s, f), with seps the characters f accepts: the maximal
\* runs of characters outside seps
FieldsFunc(s, seps) ==
    LET starts == {i \in 1..Len(s) :
                      At(s, i) \notin seps /\ (i = 1 \/ At(s, i - 1) \in seps)}
        start(k) == CHOOSE i \in starts : Cardinality({j \in starts : j < i}) = k - 1
        end(i) == Min({j \in i..Len(s) : j = Len(s) \/ At(s, j + 1) \in seps})
    IN  [k \in 1..Cardinality(starts) |-> SubSeq(s, start(k), end(start(k)))]

\* strings.Fields
Fields(s) == FieldsFunc(s, SpaceChars)

\* strings.Join
RECURSIVE Join(_, _)
Join(elems, sep) ==
    IF Len(elems) = 0 THEN ""
    ELSE IF Len(elems) = 1 THEN elems[1]
    ELSE elems[1] \o sep \o Join(Tail(elems), sep)

\* All sequences over S of length at most n
SeqsUpTo(S, n) == UNION {[1..k -> S] : k \in 0..n}

\* All orders in which the elements of S can be visited (Go's map iteration
\* order is unspecified)
Orders(S) ==
    {o \in [1..Cardinality(S) -> S] : \A i, j \in DOMAIN o : i # j => o[i] # o[j]}

----------------------------------------------------------------------------
(* githubPRLink *)

MergePrefix == "Merge pull request #"

\* regexp ^Merge pull request #[0-9]+ : the length of its (leftmost, greedy)
\* match at the start of s, 0 when s does not match
MatchPR(s) ==
    LET p == Len(MergePrefix)
        run == {k \in 1..(Len(s) - p) : \A j \in 1..k : IsDigit(At(s, p + j))}
    IN  IF HasPrefix(s, MergePrefix) /\ run # {} THEN p + Max(run) ELSE 0

\* The function handed to ReplaceAllStringFunc, applied to the match m
PRReplace(r, m) ==
    LET idx == Index(m, "#")
        pr == SubSeq(m, idx + 2, Len(m))
        link == "https://github.com/" \o r \o "/pull/" \o pr
    IN  SubSeq(m, 1, idx) \o " [#" \o pr \o "](" \o link \o ")"

\* githubPRLink(r)(change{Description: d}); its error is always nil
githubPRLink(r, d) ==
    LET n == MatchPR(d)
    IN  IF n = 0 THEN d
        ELSE PRReplace(r, SubSeq(d, 1, n)) \o SubSeq(d, n + 1, Len(d))

Repos == {"org/proj", "c/d"}
DigitStrings == UNION {[1..k -> {"4", "2"}] : k \in 0..MaxDigits}
PRHeads == {"Merge pull request #", "Merge pull request ", "merge pull request #",
            " Merge pull request #", "Fix #", "Merge pull request ##"}
PRTails == {"", " from foo/bar", "a", "7 (#9)"}
Descriptions ==
    {h \o Join(d, "") \o t : h \in PRHeads, d \in DigitStrings, t \in PRTails}

----------------------------------------------------------------------------
(* The values of the variables a specification does not use *)

IdlePR == description = "" /\ message = ""
IdleLink == c = <<>> /\ revs = <<>> /\ linkErr = Nil
IdleParse == rd = "" /\ pos = 0 /\ foundRequire = FALSE
IdleDeps == tree = <<>> /\ gitCalls = <<>>
IdleDiff == previous = <<>> /\ updated = <<>>
IdleRename == renames = <<>>
IdleLog == changelog = "" /\ changes = <<>> /\ cerr = Nil
IdleContrib == contributors = <<>> /\ names = <<>>
IdleShared == repo = "" /\ parsed = <<>> /\ perr = Nil /\ deps = <<>>

----------------------------------------------------------------------------
(* SpecPRLink: one call of the function githubPRLink(repo) returns *)

InitPRLink ==
    /\ pc = "call"
    /\ description \in Descriptions
    /\ repo \in Repos
    /\ message = ""
    /\ parsed = <<>> /\ perr = Nil /\ deps = <<>>
    /\ IdleLink /\ IdleParse /\ IdleDeps /\ IdleDiff /\ IdleRename
    /\ IdleLog /\ IdleContrib

CallPRLink ==
    /\ pc = "call"
    /\ message' = githubPRLink(repo, description)
    /\ pc' = "return"
    /\ UNCHANGED <<description, repo, parsed, perr, deps, varsLink, varsParse,
                   varsDeps, varsDiff, varsRename, varsLog, varsContrib>>

NextPRLink == CallPRLink

SpecPRLink == InitPRLink /\ [][NextPRLink]_vars

\* The description is "Merge pull request #", then the digits d (all of them:
\* what follows is no digit), then rest
IsMergeOf(s, d, rest) ==
    /\ s = MergePrefix \o d \o rest
    /\ Len(d) >= 1
    /\ \A i \in 1..Len(d) : IsDigit(At(d, i))
    /\ (rest = "" \/ ~IsDigit(At(rest, 1)))

StartsWithMerge(s) ==
    \E k \in 1..(Len(s) - Len(MergePrefix)) : IsMergeOf(s, SubSeq(s, Len(MergePrefix) + 1, Len(MergePrefix) + k),
                                   SubSeq(s, Len(MergePrefix) + k + 1, Len(s)))

\* C1: githubPRLink replaces only the "#<digits>" of a description starting
\* with "Merge pull request #<digits>" by "[#<digits>](https://github.com/R/
\* pull/<digits>)", every other character (the single space before the '#'
\* included) staying as it was; any other description is returned unchanged.
C1_OnlyReferenceReplaced ==
    pc = "return" =>
        /\ \A k \in 1..(Len(description) - Len(MergePrefix)) :
              LET d == SubSeq(description, Len(MergePrefix) + 1, Len(MergePrefix) + k)
                  rest == SubSeq(description, Len(MergePrefix) + k + 1, Len(description))
              IN  IsMergeOf(description, d, rest) =>
                      message = "Merge pull request " \o "[#" \o d
                                    \o "](https://github.com/" \o repo \o "/pull/"
                                    \o d \o ")" \o rest
        /\ ~StartsWithMerge(description) => message = description

\* The part of C1 the code does satisfy, with the space the code adds
C1_AsCoded ==
    pc = "return" =>
        /\ \A k \in 1..(Len(description) - Len(MergePrefix)) :
              LET d == SubSeq(description, Len(MergePrefix) + 1, Len(MergePrefix) + k)
                  rest == SubSeq(description, Len(MergePrefix) + k + 1, Len(description))
              IN  IsMergeOf(description, d, rest) =>
                      message = "Merge pull request  " \o "[#" \o d
                                    \o "](https://github.com/" \o repo \o "/pull/"
                                    \o d \o ")" \o rest
        /\ ~StartsWithMerge(description) => message = description

----------------------------------------------------------------------------
(* git, githubCommitLink, linkifyChanges *)

\* git(args...): the process's combined output and nil, or nil and an error
\* that embeds the exit status and the output (answer is what the
\* repository makes of the arguments)
git(answer) ==
    IF answer.err = Nil
    THEN [out |-> answer.out, err |-> Nil]
    ELSE [out |-> "", err |-> answer.err \o ": " \o answer.out]

\* githubCommitLink(r)(ch) in the repository rv
githubCommitLink(r, rv, ch) ==
    LET full == git(rv[ch.Commit])
    IN  IF full.err # Nil
        THEN [link |-> "", err |-> full.err]
        ELSE [link |-> "https://github.com/" \o r \o "/commit/" \o TrimSpace(full.out),
              err |-> Nil]

\* A slip of the loop body: the label is the resolved hash
linkifyOneFullLabel(ch, r, rv) ==
    LET commitLink == githubCommitLink(r, rv, ch)
    IN  IF commitLink.err # Nil
        THEN [c |-> ch, err |-> commitLink.err]
        ELSE [c |-> [Commit |-> "[" \o BackQuote \o TrimSpace(rv[ch.Commit].out)
                                    \o BackQuote \o "](" \o commitLink.link \o ")",
                     Description |-> githubPRLink(r, ch.Description)],
              err |-> Nil]

\* The body of linkifyChanges' loop for the change ch, with commit =
\* githubCommitLink(r) and msg = githubPRLink(r), whose error is always nil
linkifyOne(ch, r, rv) ==
    LET commitLink == githubCommitLink(r, rv, ch)
    IN  IF commitLink.err # Nil
        THEN [c |-> ch, err |-> commitLink.err]
        ELSE [c |-> [Commit |-> "[" \o BackQuote \o ch.Commit \o BackQuote
                                    \o "](" \o commitLink.link \o ")",
                     Description |-> githubPRLink(r, ch.Description)],
              err |-> Nil]

\* linkifyChanges from index i on: the slice as left behind, and the error
RECURSIVE linkifyFrom(_, _, _, _)
linkifyFrom(cs, i, r, rv) ==
    IF i > Len(cs) THEN [c |-> cs, err |-> Nil]
    ELSE LET one == linkifyOne(cs[i], r, rv)
         IN  IF one.err # Nil THEN [c |-> cs, err |-> one.err]
             ELSE linkifyFrom([cs EXCEPT ![i] = one.c], i + 1, r, rv)

linkifyChanges(cs, r, rv) == linkifyFrom(cs, 1, r, rv)

ShortHashes == {"abc12", "def34"}
\* rev-parse prints the full hash and a newline, or fails
RevAnswers(short) ==
    {[err |-> Nil, out |-> short \o "0f9e\n"],
     [err |-> Nil, out |-> short \o "77aa\n"],
     [err |-> "exit status 128", out |-> "fatal: ambiguous argument\n"]}
Repositories == {rv \in [ShortHashes -> UNION {RevAnswers(h) : h \in ShortHashes}] :
                    \A h \in ShortHashes : rv[h] \in RevAnswers(h)}
LogDescriptions == {"Fix bug", "Merge pull request #42 from foo/bar",
                    "Merge pull request #7"}
Changes == [Commit : ShortHashes, Description : LogDescriptions]

InitLinkify ==
    /\ pc = "call"
    /\ c \in SeqsUpTo(Changes, MaxChanges)
    /\ revs \in Repositories
    /\ repo \in Repos
    /\ linkErr = Nil
    /\ parsed = <<>> /\ perr = Nil /\ deps = <<>>
    /\ IdlePR /\ IdleParse /\ IdleDeps /\ IdleDiff /\ IdleRename
    /\ IdleLog /\ IdleContrib

CallLinkify ==
    /\ pc = "call"
    /\ LET r == linkifyChanges(c, repo, revs)
       IN  c' = r.c /\ linkErr' = r.err
    /\ pc' = "return"
    /\ UNCHANGED <<revs, repo, parsed, perr, deps, varsPR, varsParse,
                   varsDeps, varsDiff, varsRename, varsLog, varsContrib>>

NextLinkify == CallLinkify

SpecLinkify == InitLinkify /\ [][NextLinkify]_vars

\* The commit URL of the change ch: the repository's full hash for ch.Commit
CommitURL(ch) ==
    "https://github.com/" \o repo \o "/commit/" \o TrimSpace(revs[ch.Commit].out)

\* C5 as stated: after linkifyChanges returns without error every Commit is
\* a markdown link labelled with the full hash that rev-parse resolved, its
\* target the commit URL of that hash, and every Description is what msg
\* returned for the change as it was, at the same index.
C5_LabelIsFullHash ==
    [][(pc = "call" /\ pc' = "return" /\ linkErr' = Nil) =>
          /\ Len(c') = Len(c)
          /\ \A i \in 1..Len(c) :
                /\ c'[i].Commit \in
                      {"[" \o BackQuote \o TrimSpace(revs[c[i].Commit].out)
                           \o BackQuote \o "](" \o CommitURL(c[i]) \o ")",
                       "[" \o TrimSpace(revs[c[i].Commit].out)
                           \o "](" \o CommitURL(c[i]) \o ")"}
                /\ c'[i].Description = githubPRLink(repo, c[i].Description)]_vars

\* C5 amended: the label is the change's original (short) Commit value in
\* backquotes; the target is the commit URL of the full hash rev-parse
\* resolved; the Description is what msg returned for the change as it was,
\* at the same index.
C5_LabelIsShortHash ==
    [][(pc = "call" /\ pc' = "return" /\ linkErr' = Nil) =>
          /\ Len(c') = Len(c)
          /\ \A i \in 1..Len(c) :
                /\ c'[i].Commit = "[" \o BackQuote \o c[i].Commit \o BackQuote
                                      \o "](" \o CommitURL(c[i]) \o ")"
                /\ c'[i].Description = githubPRLink(repo, c[i].Description)]_vars

\* linkifyChanges returned without error after rewriting two changes, the
\* second one a merge commit
C5_Witness ==
    /\ pc = "return"
    /\ linkErr = Nil
    /\ Len(c) = 2
    /\ HasPrefix(c[1].Commit, "[" \o BackQuote \o "abc12" \o BackQuote \o "](")
    /\ HasPrefix(c[2].Description, "Merge pull request  [#42]")

----------------------------------------------------------------------------
(* bufio.Scanner, sanitizeLine, getCommitOrVersion, the manifest parsers *)

\* regexp [0-9a-f]{40} and the length the commit is cut to
HashLen == 40
ShortLen == 12

\* The lines bufio.Scanner yields for text: each run up to a newline, empty
\* ones included, a trailing carriage return dropped; what follows the last
\* newline is a line when it is not empty. (A line longer than the
\* scanner's 64 KiB buffer makes s.Err() non-nil; no text here is that long.)
ScanLines(text) ==
    LET nls == {i \in 1..Len(text) : IsNewline(At(text, i))}
        k == Cardinality(nls)
        nl(j) == IF j = 0 THEN 0
                 ELSE CHOOSE i \in nls : Cardinality({m \in nls : m < i}) = j - 1
        n == IF nl(k) < Len(text) THEN k + 1 ELSE k
        raw(j) == SubSeq(text, nl(j - 1) + 1, IF j <= k THEN nl(j) - 1 ELSE Len(text))
        dropCR(l) == IF HasSuffix(l, "\r") THEN SubSeq(l, 1, Len(l) - 1) ELSE l
    IN  [j \in 1..n |-> dropCR(raw(j))]

sanitizeLine(line, commentDelim) ==
    LET ln == TrimSpace(line)
        cidx == Index(ln, commentDelim)
    IN  IF ln = "" THEN ""
        ELSE IF cidx = 0 THEN ""
        ELSE IF cidx > 0 THEN TrimSpace(SubSeq(ln, 1, cidx))
        ELSE TrimSpace(ln)

getCommitOrVersion(cov) ==
    LET dashFields == FieldsFunc(cov, DashChars)
        incpIdx == Index(cov, "+incompatible")
    IN  IF Len(dashFields) = 1 \/ Len(dashFields) = 2
        THEN IF incpIdx > 0 THEN SubSeq(cov, 1, incpIdx) ELSE cov
        ELSE IF Len(dashFields) = 3 THEN dashFields[3]
        ELSE ""

dependency(name, commit, cloneURL) ==
    [Name |-> name, Commit |-> commit, CloneURL |-> cloneURL, Previous |-> ""]

\* The body of parseGoModDependencies' loop for one scanned line: the flag
\* and the slice after it, and how the loop goes on: "continue", "break" or
\* "return" (with err)
goModLine(line, found, ds) ==
    LET ln == sanitizeLine(line, "//")
        parts == Fields(ln)
        numParts == Len(parts)
        go(f, d, to, e) == [foundRequire |-> f, deps |-> d, next |-> to, err |-> e]
    IN  IF ln = "" THEN go(found, ds, "continue", Nil)
        ELSE IF ~found /\ numParts = 2
        THEN go(parts[1] = "require" /\ parts[2] = "(", ds, "continue", Nil)
        ELSE IF numParts # 2
        THEN IF numParts = 1 /\ parts[1] = ")"
             THEN go(found, ds, "break", Nil)
             ELSE go(found, ds, "return", "invalid config format: " \o ln)
        ELSE LET commitOrVersion == getCommitOrVersion(parts[2])
             IN  IF commitOrVersion = ""
                 THEN go(found, ds, "return",
                         "invalid go.mod file, poorly formatted version in requires section "
                             \o parts[2])
                 ELSE go(found,
                         Append(ds, dependency(parts[1], commitOrVersion,
                                               "git://" \o parts[1])),
                         "continue", Nil)

\* parseGoModDependencies from the i-th scanned line on
RECURSIVE goModFrom(_, _, _, _)
goModFrom(lines, i, found, ds) ==
    IF i > Len(lines) THEN [deps |-> ds, err |-> Nil]
    ELSE LET r == goModLine(lines[i], found, ds)
         IN  IF r.next = "return" THEN [deps |-> <<>>, err |-> r.err]
             ELSE IF r.next = "break" THEN [deps |-> r.deps, err |-> Nil]
             ELSE goModFrom(lines, i + 1, r.foundRequire, r.deps)

parseGoModDependencies(text) == goModFrom(ScanLines(text), 1, FALSE, <<>>)

\* regexp.Match(`[0-9a-f]{40}`, s): the expression carries no anchors
MatchHash(s) ==
    \E i \in 1..(Len(s) - HashLen + 1) :
        \A j \in i..(i + HashLen - 1) : IsHex(At(s, j))

\* The body of parseVendorConfDependencies' loop for one scanned line
vendorConfLine(line, ds) ==
    LET ln == sanitizeLine(line, "#")
        parts == Fields(ln)
        go(d, to, e) == [deps |-> d, next |-> to, err |-> e]
    IN  IF ln = "" THEN go(ds, "continue", Nil)
        ELSE IF Len(parts) # 2 /\ Len(parts) # 3
        THEN go(ds, "return", "invalid config format: " \o ln)
        ELSE LET cloneURL == IF Len(parts) = 3 THEN parts[3]
                             ELSE "git://" \o parts[1]
                 commitOrVersion == IF MatchHash(parts[2])
                                    THEN SubSeq(parts[2], 1, ShortLen)
                                    ELSE parts[2]
             IN  go(Append(ds, dependency(parts[1], commitOrVersion, cloneURL)),
                    "continue", Nil)

RECURSIVE vendorConfFrom(_, _, _)
vendorConfFrom(lines, i, ds) ==
    IF i > Len(lines) THEN [deps |-> ds, err |-> Nil]
    ELSE LET r == vendorConfLine(lines[i], ds)
         IN  IF r.next = "return" THEN [deps |-> <<>>, err |-> r.err]
             ELSE vendorConfFrom(lines, i + 1, r.deps)

parseVendorConfDependencies(text) == vendorConfFrom(ScanLines(text), 1, <<>>)

----------------------------------------------------------------------------
(* SpecGoMod, SpecVersion: parseGoModDependencies scans a go.mod, one line *)
(* of the scanner's per step                                               *)

NumLines == Len(ScanLines(rd))
CurrentLine == ScanLines(rd)[pos + 1]

\* One turn of the loop of parseGoModDependencies
GoModScan ==
    /\ pc = "scan"
    /\ pos < NumLines
    /\ LET r == goModLine(CurrentLine, foundRequire, parsed)
       IN  /\ foundRequire' = r.foundRequire
           /\ parsed' = IF r.next = "return" THEN <<>> ELSE r.deps
           /\ perr' = r.err
           /\ pc' = IF r.next = "continue" THEN "scan" ELSE "return"
    /\ pos' = pos + 1
    /\ UNCHANGED <<rd, repo, deps, varsPR, varsLink, varsDeps, varsDiff,
                   varsRename, varsLog, varsContrib>>

\* s.Scan() is false at the end of the text, s.Err() is nil: the slice is
\* returned
GoModEOF ==
    /\ pc = "scan"
    /\ pos = NumLines
    /\ pc' = "return"
    /\ perr' = Nil
    /\ UNCHANGED <<parsed, rd, pos, foundRequire, repo, deps, varsPR, varsLink,
                   varsDeps, varsDiff, varsRename, varsLog, varsContrib>>

NextGoMod == GoModScan \/ GoModEOF

InitParse(texts) ==
    /\ pc = "scan"
    /\ rd \in texts
    /\ pos = 0
    /\ foundRequire = FALSE
    /\ parsed = <<>> /\ perr = Nil
    /\ repo = "" /\ deps = <<>>
    /\ IdlePR /\ IdleLink /\ IdleDeps /\ IdleDiff /\ IdleRename
    /\ IdleLog /\ IdleContrib

\* A text of the given lines, each ended by a newline
TextOf(lines) == Join(lines, "\n") \o (IF Len(lines) = 0 THEN "" ELSE "\n")

GoModLines == {"module m", "go 1.13", "require (", ")", "a v1", "b v0-1-c",
               "x", "replace a => b", "", "// c", "a v2 // indirect"}
GoModTexts == {TextOf(l) : l \in SeqsUpTo(GoModLines, MaxLines)}

InitGoMod == InitParse(GoModTexts)

SpecGoMod == InitGoMod /\ [][NextGoMod]_vars

\* The line is the marker: after sanitization its two fields are `require`
\* and `(`
IsMarker(line) == Fields(sanitizeLine(line, "//")) = <<"require", "(">>

\* C3: a line scanned before the `require (` marker, whatever its number of
\* fields, is ignored: it produces no dependency, does not end the scan and
\* does not make the parse fail.
C3_LinesBeforeMarkerIgnored ==
    [][(pc = "scan" /\ pos < NumLines /\ ~foundRequire /\ ~IsMarker(CurrentLine)) =>
          (pc' = "scan" /\ parsed' = <<>> /\ perr' = Nil /\ ~foundRequire')]_vars

\* What does hold: before the marker, a line of exactly two fields (or a
\* blank or comment line) is ignored
C3_TwoFieldLinesIgnored ==
    [][(/\ pc = "scan" /\ pos < NumLines /\ ~foundRequire /\ ~IsMarker(CurrentLine)
        /\ Len(Fields(sanitizeLine(CurrentLine, "//"))) \in {0, 2}) =>
          (pc' = "scan" /\ parsed' = <<>> /\ perr' = Nil /\ ~foundRequire')]_vars

\* The version fields: up to MaxPieces pieces, empty ones among them, joined
\* by dashes
VersionPieces == {"", "v1", "c0ffee", "v2+incompatible", "+incompatible",
                  "v3+incompatible.1"}
Versions == {Join(l, "-") : l \in SeqsUpTo(VersionPieces, MaxPieces)} \ {""}
VersionTexts == {"require (\n\tdep " \o v \o "\n" \o closing :
                    v \in Versions, closing \in {")\n", ""}}

InitVersion == InitParse(VersionTexts)

SpecVersion == InitVersion /\ [][NextGoMod]_vars

\* The version field of the one dependency line of a text of VersionTexts
VersionOf(text) == Fields(ScanLines(text)[2])[2]

TrimSuffix(s, suffix) ==
    IF HasSuffix(s, suffix) THEN SubSeq(s, 1, Len(s) - Len(suffix)) ELSE s

\* C6: with n the number of non-empty dash-separated pieces of the version
\* v, the Commit is the third piece when n = 3, v without a trailing
\* "+incompatible" (and otherwise unchanged) when n is 1 or 2, and the parse
\* fails with an error and no list for any other n.
C6_CommitOfVersion ==
    pc = "return" =>
        LET v == VersionOf(rd)
            pieces == FieldsFunc(v, DashChars)
        IN  IF Len(pieces) = 3
            THEN perr = Nil /\ parsed = <<dependency("dep", pieces[3], "git://dep")>>
            ELSE IF Len(pieces) \in {1, 2}
            THEN /\ perr = Nil
                 /\ parsed = <<dependency("dep", TrimSuffix(v, "+incompatible"),
                                          "git://dep")>>
            ELSE perr # Nil /\ parsed = <<>>

\* What does hold: with n of 1 or 2 the Commit is v cut at the first
\* "+incompatible" that does not start v
C6_AsCoded ==
    pc = "return" =>
        LET v == VersionOf(rd)
            pieces == FieldsFunc(v, DashChars)
            cut == Index(v, "+incompatible")
        IN  IF Len(pieces) = 3
            THEN perr = Nil /\ parsed = <<dependency("dep", pieces[3], "git://dep")>>
            ELSE IF Len(pieces) \in {1, 2}
            THEN /\ perr = Nil
                 /\ parsed = <<dependency("dep",
                                          IF cut > 0 THEN SubSeq(v, 1, cut) ELSE v,
                                          "git://dep")>>
            ELSE perr # Nil /\ parsed = <<>>

----------------------------------------------------------------------------
(* SpecVendorConf: parseVendorConfDependencies scans a vendor.conf *)

VendorConfScan ==
    /\ pc = "scan"
    /\ pos < NumLines
    /\ LET r == vendorConfLine(CurrentLine, parsed)
       IN  /\ parsed' = IF r.next = "return" THEN <<>> ELSE r.deps
           /\ perr' = r.err
           /\ pc' = IF r.next = "continue" THEN "scan" ELSE "return"
    /\ pos' = pos + 1
    /\ UNCHANGED <<rd, foundRequire, repo, deps, varsPR, varsLink, varsDeps,
                   varsDiff, varsRename, varsLog, varsContrib>>

VendorConfEOF ==
    /\ pc = "scan"
    /\ pos = NumLines
    /\ pc' = "return"
    /\ perr' = Nil
    /\ UNCHANGED <<parsed, rd, pos, foundRequire, repo, deps, varsPR, varsLink,
                   varsDeps, varsDiff, varsRename, varsLog, varsContrib>>

NextVendorConf == VendorConfScan \/ VendorConfEOF

MaxVendorLines == 2
Hex40 == "0123456789abcdef0123456789abcdef01234567"
CommitFields == {Hex40, SubSeq(Hex40, 1, HashLen - 1), Hex40 \o "8",
                 "v" \o Hex40, "v1.0.0", Hex40 \o "-dirty",
                 "0123456789ABCDEF0123456789abcdef01234567", "0123456789ab"}
VendorConfLines ==
    {"github.com/a/b " \o f \o u : f \in CommitFields, u \in {"", " https://x/y.git"}}
        \cup {"", "# c", "x", "a b c d"}
VendorConfTexts == {TextOf(l) : l \in SeqsUpTo(VendorConfLines, MaxVendorLines)}

InitVendorConf == InitParse(VendorConfTexts)

SpecVendorConf == InitVendorConf /\ [][NextVendorConf]_vars

\* s is a 40-character lowercase hexadecimal string
IsFullHash(s) == Len(s) = HashLen /\ \A i \in 1..Len(s) : IsHex(At(s, i))

\* C7: for a well-formed vendor.conf line (2 or 3 fields once sanitized) the
\* dependency appended has Commit equal to the first 12 characters of the
\* second field when that field is a 40-character lowercase hexadecimal
\* string, and to the second field unchanged in every other case.
C7_OnlyFullHashesCut ==
    [][(/\ pc = "scan" /\ pos < NumLines
        /\ Len(Fields(sanitizeLine(CurrentLine, "#"))) \in {2, 3}) =>
          LET field == Fields(sanitizeLine(CurrentLine, "#"))[2]
          IN  /\ Len(parsed') = Len(parsed) + 1
              /\ parsed'[Len(parsed')].Commit =
                     IF IsFullHash(field) THEN SubSeq(field, 1, ShortLen) ELSE field]_vars

\* What does hold: the field is cut to 12 characters whenever 40 lowercase
\* hexadecimal characters in a row occur anywhere in it
C7_AsCoded ==
    [][(/\ pc = "scan" /\ pos < NumLines
        /\ Len(Fields(sanitizeLine(CurrentLine, "#"))) \in {2, 3}) =>
          LET field == Fields(sanitizeLine(CurrentLine, "#"))[2]
              hasRun == \E i \in 1..(Len(field) - HashLen + 1) :
                            IsFullHash(SubSeq(field, i, i + HashLen - 1))
          IN  /\ Len(parsed') = Len(parsed) + 1
              /\ parsed'[Len(parsed')].Commit =
                     IF hasRun THEN SubSeq(field, 1, ShortLen) ELSE field]_vars

----------------------------------------------------------------------------
(* SpecParseDeps: fileFromRev, parseDependencies *)

vendorConf == "vendor.conf"
goMod == "go.mod"

\* fileFromRev(rev, file) in the repository tr: tr[file] is what
\* `git show rev:file` answers
fileFromRev(rev, file, tr) ==
    LET p == git(tr[file])
    IN  IF p.err # Nil THEN [rd |-> "", err |-> p.err]
        ELSE [rd |-> p.out, err |-> Nil]

\* parseDependencies(commit) in the repository tr, with the git invocations
\* it makes
parseDependencies(commit, tr) ==
    LET v == fileFromRev(commit, vendorConf, tr)
        g == fileFromRev(commit, goMod, tr)
        showV == "show " \o commit \o ":" \o vendorConf
        showG == "show " \o commit \o ":" \o goMod
    IN  IF v.err = Nil
        THEN [res |-> parseVendorConfDependencies(v.rd), calls |-> <<showV>>]
        ELSE IF g.err = Nil
        THEN [res |-> parseGoModDependencies(g.rd), calls |-> <<showV, showG>>]
        ELSE [res |-> [deps |-> <<>>,
                       err |-> "finding current dep file failed. vendor.conf error: "
                                   \o v.err \o ", go.mod error: " \o g.err],
              calls |-> <<showV, showG>>]

Rev == "v1.0.0"

\* What git show can answer for a manifest: its text; that the path does not
\* exist in the revision; or another failure. The field kind names the case
\* for the properties below; git reads err and out only.
Found(texts) == {[kind |-> "found", err |-> Nil, out |-> t] : t \in texts}
Failures(file) ==
    {[kind |-> "notfound", err |-> "exit status 128",
      out |-> "fatal: path '" \o file \o "' does not exist in '" \o Rev \o "'\n"],
     [kind |-> "failed", err |-> "exit status 128",
      out |-> "fatal: unable to read tree\n"],
     [kind |-> "failed", err |-> "signal: killed", out |-> ""]}
VendorConfAnswers ==
    Found({"", "github.com/a/b v1.0.0\n", "github.com/a/b " \o Hex40 \o " https://x/y.git\nc v2\n",
           "github.com/a/b\n"})
        \cup Failures(vendorConf)
GoModAnswers ==
    Found({"", "module m\n\nrequire (\n\ta v1\n)\n", "require (\n\ta v0-1-c0ffee\n\tb v2\n",
           "require (\n\ta v1 v2 v3\n)\n", "module m\n"})
        \cup Failures(goMod)

InitParseDeps ==
    /\ pc = "call"
    /\ tree \in {t \in [{vendorConf, goMod} -> VendorConfAnswers \cup GoModAnswers] :
                    t[vendorConf] \in VendorConfAnswers /\ t[goMod] \in GoModAnswers}
    /\ gitCalls = <<>>
    /\ parsed = <<>> /\ perr = Nil
    /\ repo = "" /\ deps = <<>>
    /\ IdlePR /\ IdleLink /\ IdleParse /\ IdleDiff /\ IdleRename
    /\ IdleLog /\ IdleContrib

CallParseDependencies ==
    /\ pc = "call"
    /\ LET r == parseDependencies(Rev, tree)
       IN  parsed' = r.res.deps /\ perr' = r.res.err /\ gitCalls' = r.calls
    /\ pc' = "return"
    /\ UNCHANGED <<tree, repo, deps, varsPR, varsLink, varsParse, varsDiff,
                   varsRename, varsLog, varsContrib>>

NextParseDeps == CallParseDependencies

SpecParseDeps == InitParseDeps /\ [][NextParseDeps]_vars

ShowOf(file) == "show " \o Rev \o ":" \o file
LookupError(answer) == answer.err \o ": " \o answer.out
CombinedError(v, g) ==
    "finding current dep file failed. vendor.conf error: " \o LookupError(v)
        \o ", go.mod error: " \o LookupError(g)

\* C4: vendor.conf is looked up first and parsed when found; go.mod is
\* looked up only when vendor.conf is absent (NotFound); any other failure
\* of the vendor.conf lookup is returned as is and go.mod is not tried; a
\* parse error of a manifest that was found is returned as is; the combined
\* error is returned only when both lookups fail.
C4_FallbackOnlyOnNotFound ==
    pc = "return" =>
        LET v == tree[vendorConf]
            g == tree[goMod]
            result == [deps |-> parsed, err |-> perr]
        IN  /\ v.kind = "found" =>
                  result = parseVendorConfDependencies(v.out)
                      /\ gitCalls = <<ShowOf(vendorConf)>>
            /\ (v.kind = "notfound" /\ g.kind = "found") =>
                  result = parseGoModDependencies(g.out)
                      /\ gitCalls = <<ShowOf(vendorConf), ShowOf(goMod)>>
            /\ v.kind = "failed" =>
                  result = [deps |-> <<>>, err |-> LookupError(v)]
                      /\ gitCalls = <<ShowOf(vendorConf)>>
            /\ (v.kind = "notfound" /\ g.kind # "found") =>
                  result = [deps |-> <<>>, err |-> CombinedError(v, g)]
            /\ perr = CombinedError(v, g) => (v.kind # "found" /\ g.kind # "found")

\* What does hold: go.mod is tried after any failure of the vendor.conf
\* lookup
C4_AsCoded ==
    pc = "return" =>
        LET v == tree[vendorConf]
            g == tree[goMod]
            result == [deps |-> parsed, err |-> perr]
        IN  /\ v.kind = "found" =>
                  result = parseVendorConfDependencies(v.out)
                      /\ gitCalls = <<ShowOf(vendorConf)>>
            /\ (v.kind # "found" /\ g.kind = "found") =>
                  result = parseGoModDependencies(g.out)
                      /\ gitCalls = <<ShowOf(vendorConf), ShowOf(goMod)>>
            /\ (v.kind # "found" /\ g.kind # "found") =>
                  result = [deps |-> <<>>, err |-> CombinedError(v, g)]

----------------------------------------------------------------------------
(* SpecChangelog: parseChangelog *)

\* The change of one log line; fields[0] of an empty field list is an index
\* out of range, which panics
changeOf(line) ==
    LET fields == Fields(line)
    IN  IF Len(fields) = 0 THEN [panic |-> TRUE, change |-> <<>>]
        ELSE [panic |-> FALSE,
              change |-> [Commit |-> fields[1],
                          Description |-> Join(Tail(fields), " ")]]

parseChangelog(raw) ==
    LET lines == ScanLines(raw)
    IN  IF \E i \in 1..Len(lines) : changeOf(lines[i]).panic
        THEN [changes |-> <<>>, err |-> Panic]
        ELSE [changes |-> [i \in 1..Len(lines) |-> changeOf(lines[i]).change],
              err |-> Nil]

LogLines == {"abc123 Fix bug", "def456 Add  feature", "", "   ", "0a1b2c3"}
Changelogs == {Join(l, "\n") \o ending : l \in SeqsUpTo(LogLines, MaxLog),
                                         ending \in {"", "\n"}}

InitChangelog ==
    /\ pc = "call"
    /\ changelog \in Changelogs
    /\ changes = <<>> /\ cerr = Nil
    /\ IdleShared
    /\ IdlePR /\ IdleLink /\ IdleParse /\ IdleDeps /\ IdleDiff /\ IdleRename
    /\ IdleContrib

CallParseChangelog ==
    /\ pc = "call"
    /\ LET r == parseChangelog(changelog)
       IN  changes' = r.changes /\ cerr' = r.err
    /\ pc' = "return"
    /\ UNCHANGED <<changelog, repo, parsed, perr, deps, varsPR, varsLink,
                   varsParse, varsDeps, varsDiff, varsRename, varsContrib>>

NextChangelog == CallParseChangelog

SpecChangelog == InitChangelog /\ [][NextChangelog]_vars

\* C8: on a raw log with a line of zero fields parseChangelog returns an
\* error value and no change list, without an out-of-range index; on any
\* other log it returns one change per line, in the order of the lines.
C8_FailsExplicitly ==
    pc = "return" =>
        LET lines == ScanLines(changelog)
        IN  /\ cerr # Panic
            /\ IF \E i \in 1..Len(lines) : Len(Fields(lines[i])) = 0
               THEN cerr # Nil /\ changes = <<>>
               ELSE /\ cerr = Nil
                    /\ Len(changes) = Len(lines)
                    /\ \A i \in 1..Len(lines) :
                          /\ changes[i].Commit = Fields(lines[i])[1]
                          /\ changes[i].Description = Join(Tail(Fields(lines[i])), " ")

\* What does hold: the second half of C8
C8_OneChangePerLine ==
    pc = "return" =>
        LET lines == ScanLines(changelog)
        IN  (\A i \in 1..Len(lines) : Len(Fields(lines[i])) > 0) =>
                /\ cerr = Nil
                /\ Len(changes) = Len(lines)
                /\ \A i \in 1..Len(lines) :
                      /\ changes[i].Commit = Fields(lines[i])[1]
                      /\ changes[i].Description = Join(Tail(Fields(lines[i])), " ")

----------------------------------------------------------------------------
(* SpecUpdatedDeps: toDepMap, updatedDeps *)

\* A slip of toDepMap: the first record of a name is kept
toDepMapFirstWins(ds) ==
    [n \in {ds[i].Name : i \in 1..Len(ds)} |->
        ds[Min({i \in 1..Len(ds) : ds[i].Name = n})]]

\* toDepMap: each name's last record
toDepMap(ds) ==
    [n \in {ds[i].Name : i \in 1..Len(ds)} |->
        ds[Max({i \in 1..Len(ds) : ds[i].Name = n})]]

\* The loop of updatedDeps over cm, visited in the given order, from its
\* i-th key on
RECURSIVE updatedFrom(_, _, _, _, _)
updatedFrom(pm, cm, order, i, upd) ==
    IF i > Len(order) THEN upd
    ELSE LET name == order[i]
             cur == cm[name]
         IN  IF name \notin DOMAIN pm
             THEN updatedFrom(pm, cm, order, i + 1, Append(upd, cur))
             ELSE IF pm[name].Commit # cur.Commit
             THEN updatedFrom(pm, cm, order, i + 1,
                              Append(upd, [cur EXCEPT !.Previous = pm[name].Commit]))
             ELSE updatedFrom(pm, cm, order, i + 1, upd)

\* updatedDeps(prev, ds) when the range over cm visits its keys in order
updatedDeps(prev, ds, order) ==
    updatedFrom(toDepMap(prev), toDepMap(ds), order, 1, <<>>)

\* The lists the parsers produce: Previous is empty, a name may occur twice
DepNames == {"a", "b", "c"}
Commits == {"v1", "v2"}
CurrentDeps == {dependency(n, v, "git://" \o n) : n \in DepNames, v \in Commits}
PreviousDeps == {d \in CurrentDeps : d.Commit = "v1" \/ d.Name = "a"}

InitUpdatedDeps ==
    /\ pc = "call"
    /\ previous \in SeqsUpTo(PreviousDeps, MaxDeps)
    /\ deps \in SeqsUpTo(CurrentDeps, MaxDeps)
    /\ updated = <<>>
    /\ repo = "" /\ parsed = <<>> /\ perr = Nil
    /\ IdlePR /\ IdleLink /\ IdleParse /\ IdleDeps /\ IdleRename
    /\ IdleLog /\ IdleContrib

CallUpdatedDeps ==
    /\ pc = "call"
    /\ \E order \in Orders(DOMAIN toDepMap(deps)) :
          updated' = updatedDeps(previous, deps, order)
    /\ pc' = "return"
    /\ UNCHANGED <<previous, deps, repo, parsed, perr, varsPR, varsLink,
                   varsParse, varsDeps, varsRename, varsLog, varsContrib>>

NextUpdatedDeps == CallUpdatedDeps

SpecUpdatedDeps == InitUpdatedDeps /\ [][NextUpdatedDeps]_vars

NamesOf(ds) == {ds[i].Name : i \in 1..Len(ds)}
\* The last record named n in ds
LastNamed(ds, n) ==
    ds[CHOOSE i \in 1..Len(ds) :
           ds[i].Name = n /\ \A j \in (i + 1)..Len(ds) : ds[j].Name # n]

\* C2: updatedDeps(previous, current) holds, in some order, exactly one
\* record per distinct name N of current (each list's last record named N
\* counting) that is new - absent from previous: the current record as it
\* is, Previous empty - or updated - in previous with another Commit: the
\* current record with Previous set to the previous Commit; a name in both
\* lists with equal Commit is left out, so updatedDeps(X, X) is empty.
C2_NewAndUpdatedOnly ==
    pc = "return" =>
        LET new == {LastNamed(deps, n) : n \in NamesOf(deps) \ NamesOf(previous)}
            changed == {[LastNamed(deps, n) EXCEPT
                            !.Previous = LastNamed(previous, n).Commit] :
                        n \in {m \in NamesOf(deps) \cap NamesOf(previous) :
                                  LastNamed(deps, m).Commit # LastNamed(previous, m).Commit}}
        IN  /\ {updated[i] : i \in 1..Len(updated)} = new \cup changed
            /\ Len(updated) = Cardinality(new \cup changed)
            /\ \A d \in new : d.Previous = ""
            /\ \A i \in 1..Len(updated) :
                  ~(/\ updated[i].Name \in NamesOf(previous)
                    /\ updated[i].Commit = LastNamed(previous, updated[i].Name).Commit)
            /\ (\A n \in NamesOf(deps) :
                   /\ n \in NamesOf(previous)
                   /\ LastNamed(deps, n).Commit = LastNamed(previous, n).Commit)
                   => updated = <<>>
            /\ previous = deps => updated = <<>>

\* updatedDeps returned a new dependency and an updated one and left out an
\* unchanged one
C2_Witness ==
    /\ pc = "return"
    /\ \E n \in NamesOf(deps) \cap NamesOf(previous) :
          \A i \in 1..Len(updated) : updated[i].Name # n
    /\ \E i, j \in 1..Len(updated) :
          /\ updated[i].Previous = "" /\ updated[i].Name \notin NamesOf(previous)
          /\ updated[j].Previous # "" /\ updated[j].Name \in NamesOf(previous)

----------------------------------------------------------------------------
(* SpecRename: renameDependencies *)

\* renameMap: the range over renames, visiting the shortnames in order,
\* assigns renameMap[rename.Old]; a later assignment replaces an earlier one
renameMapOf(rn, order) ==
    [old \in {rn[sn].Old : sn \in DOMAIN rn} |->
        LET last == Max({i \in 1..Len(order) : rn[order[i]].Old = old})
        IN  [shortname |-> order[last], name |-> rn[order[last]].New]]

\* A slip of renameDependencies: a new name that is an old one of another
\* entry is renamed again
renameDependenciesAgain(ds, rn, order) ==
    IF Cardinality(DOMAIN rn) = 0 THEN ds
    ELSE LET renameMap == renameMapOf(rn, order)
             once(n) == IF n \in DOMAIN renameMap THEN renameMap[n].name ELSE n
         IN  [i \in 1..Len(ds) |-> [ds[i] EXCEPT !.Name = once(once(ds[i].Name))]]

\* renameDependencies(ds, rn): the slice as the call leaves it
renameDependencies(ds, rn, order) ==
    IF Cardinality(DOMAIN rn) = 0 THEN ds
    ELSE LET renameMap == renameMapOf(rn, order)
         IN  [i \in 1..Len(ds) |->
                 IF ds[i].Name \in DOMAIN renameMap
                 THEN [ds[i] EXCEPT !.Name = renameMap[ds[i].Name].name]
                 ELSE ds[i]]

ShortNames == {"s1", "s2"}
RenamedNames == {"a", "b", "c"}
ProjectRenames == [Old : RenamedNames, New : RenamedNames]
RenameTables == UNION {[sns -> ProjectRenames] : sns \in SUBSET ShortNames}
RenamedDeps == {dependency(n, "v1", "git://" \o n) : n \in RenamedNames}
                   \cup {[dependency("a", "v2", "https://h/a") EXCEPT !.Previous = "v1"]}

InitRename ==
    /\ pc = "call"
    /\ deps \in SeqsUpTo(RenamedDeps, MaxDeps)
    /\ renames \in RenameTables
    /\ repo = "" /\ parsed = <<>> /\ perr = Nil
    /\ IdlePR /\ IdleLink /\ IdleParse /\ IdleDeps /\ IdleDiff
    /\ IdleLog /\ IdleContrib

CallRenameDependencies ==
    /\ pc = "call"
    /\ \E order \in Orders(DOMAIN renames) :
          deps' = renameDependencies(deps, renames, order)
    /\ pc' = "return"
    /\ UNCHANGED <<renames, repo, parsed, perr, previous, updated, varsPR,
                   varsLink, varsParse, varsDeps, varsLog, varsContrib>>

NextRename == CallRenameDependencies

SpecRename == InitRename /\ [][NextRename]_vars

\* C10: renameDependencies gives every dependency whose Name was the Old of
\* a rename entry that entry's New (the New of one of them when several
\* entries have that Old), once, and changes nothing else: Commit, CloneURL,
\* Previous, the other Names, the length and the order stay, and so does the
\* whole list under an empty rename table.
C10_RenamedOnceNothingElse ==
    [][(pc = "call" /\ pc' = "return") =>
          /\ Len(deps') = Len(deps)
          /\ renames' = renames
          /\ \A i \in 1..Len(deps) :
                LET news == {renames[sn].New :
                                sn \in {t \in DOMAIN renames :
                                           renames[t].Old = deps[i].Name}}
                IN  /\ deps'[i].Commit = deps[i].Commit
                    /\ deps'[i].CloneURL = deps[i].CloneURL
                    /\ deps'[i].Previous = deps[i].Previous
                    /\ IF news = {} THEN deps'[i].Name = deps[i].Name
                       ELSE deps'[i].Name \in news
          /\ (DOMAIN renames = {} => deps' = deps)]_vars

\* A dependency was renamed from a to b and not again to c, next to one that
\* no entry names
C10_Witness ==
    /\ pc = "return"
    /\ renames = [sn \in ShortNames |->
                     IF sn = "s1" THEN [Old |-> "a", New |-> "b"]
                     ELSE [Old |-> "b", New |-> "c"]]
    /\ Len(deps) = 2
    /\ deps[1].Name = "b" /\ deps[1].CloneURL = "git://a"
    /\ deps[2].Name = "c" /\ deps[2].CloneURL = "git://c"

----------------------------------------------------------------------------
(* SpecContributors: orderContributors *)

\* The characters of the names below, in the order of their bytes
ByteOrder == " .@ABCDEFGHIJKLMNOPQRSTUVWXYZabcdefghijklmnopqrstuvwxyz"
Ord(ch) == CHOOSE i \in 1..Len(ByteOrder) : At(ByteOrder, i) = ch

\* a < b on Go strings: bytewise lexicographic
StrLess(a, b) ==
    \E i \in 1..(Len(b)) :
        /\ i <= Len(a) + 1
        /\ SubSeq(a, 1, i - 1) = SubSeq(b, 1, i - 1)
        /\ (i = Len(a) + 1 \/ Ord(At(a, i)) < Ord(At(b, i)))

\* A slip of the less function: fewer commits first
lessAscending(x, y) ==
    IF x.count = y.count THEN StrLess(x.name, y.name) ELSE x.count < y.count

\* The less function handed to sort.Slice
less(x, y) ==
    IF x.count = y.count THEN StrLess(x.name, y.name) ELSE x.count > y.count

\* x put into the sorted sequence sorted, behind every element it is not
\* less than
Insert(sorted, x) ==
    LET before == {i \in 1..Len(sorted) : ~less(x, sorted[i])}
        k == IF before = {} THEN 0 ELSE Max(before)
    IN  SubSeq(sorted, 1, k) \o <<x>> \o SubSeq(sorted, k + 1, Len(sorted))

\* sort.Slice(all, less). less orders any two elements that differ in count
\* or name, and sort.Slice, which is not stable, may leave the others
\* (the same name and count under two emails) in any order: all of these
\* results are those of an insertion sort of some arrangement of all, and
\* all comes from a map range, so in every arrangement.
RECURSIVE sortSlice(_)
sortSlice(all) ==
    IF Len(all) = 0 THEN <<>>
    ELSE Insert(sortSlice(SubSeq(all, 1, Len(all) - 1)), all[Len(all)])

\* orderContributors(m) when the range over m visits its keys in order
orderContributors(m, order) ==
    LET unsorted == [i \in 1..Len(order) |->
                        [name |-> order[i].name, email |-> order[i].email,
                         count |-> m[order[i]]]]
        all == sortSlice(unsorted)
    IN  [i \in 1..Len(all) |-> all[i].name]

ContributorNames == {"A", "Ab", "a"}
Emails == {"x@y.z", "w@y.z"}
Contributors == [name : ContributorNames, email : Emails]
Tallies == UNION {[cs -> 1..MaxCount] :
                     cs \in {k \in SUBSET Contributors : Cardinality(k) <= MaxContrib}}

InitContributors ==
    /\ pc = "call"
    /\ contributors \in Tallies
    /\ names = <<>>
    /\ IdleShared
    /\ IdlePR /\ IdleLink /\ IdleParse /\ IdleDeps /\ IdleDiff /\ IdleRename
    /\ IdleLog

CallOrderContributors ==
    /\ pc = "call"
    /\ \E order \in Orders(DOMAIN contributors) :
          names' = orderContributors(contributors, order)
    /\ pc' = "return"
    /\ UNCHANGED <<contributors, repo, parsed, perr, deps, varsPR, varsLink,
                   varsParse, varsDeps, varsDiff, varsRename, varsLog>>

NextContributors == CallOrderContributors

SpecContributors == InitContributors /\ [][NextContributors]_vars

\* ns names each key of the tally m once, in an order in which every entry
\* has more commits than the next one, or as many and a name that is not
\* greater
Ranked(ns, m) ==
    \E p \in Orders(DOMAIN m) :
        /\ Len(ns) = Len(p)
        /\ \A i \in 1..Len(p) : ns[i] = p[i].name
        /\ \A i \in 1..(Len(p) - 1) :
              \/ m[p[i]] > m[p[i + 1]]
              \/ m[p[i]] = m[p[i + 1]] /\ ~StrLess(p[i + 1].name, p[i].name)

\* C9: orderContributors returns one name per (name, email) key of the
\* tally, each entry followed by one with fewer commits or with as many and
\* a name lexicographically greater or equal, and leaves the tally as it
\* was.
C9_RankedByCountThenName ==
    [][(pc = "call" /\ pc' = "return") =>
          (contributors' = contributors /\ Ranked(names', contributors))]_vars

\* Two contributors with as many commits and one with fewer were ranked
C9_Witness ==
    /\ pc = "return"
    /\ names = <<"A", "Ab", "a">>
    /\ \E x, y, z \in DOMAIN contributors :
          /\ x.name = "A" /\ y.name = "Ab" /\ z.name = "a"
          /\ contributors[x] = contributors[y]
          /\ contributors[z] < contributors[x]

====
